---- MODULE Spec2Model ----
(***************************************************************************)
(* Model of pylabrobot/plate_reading/biotek_backend.py (Cytation5Backend). *)
(*                                                                         *)
(* Spec      : the serial side under asyncio's cooperative scheduling: a   *)
(*             foreground caller, the background shake tasks created by    *)
(*             shake(), the FTDI channel and the device at its far end.    *)
(* SpecOne   : the same with a caller that starts a shake session only     *)
(*             when none is running, and that also calls open() and stop(). *)
(* SpecShake : one shake session at a time under fair scheduling.          *)
(* SpecRead  : the read operations of a caller, from the validation of the *)
(*             arguments to the parsed data body, and open() beside them.  *)
(* SpecParse : _parse_body on rendered response bodies.                    *)
(* SpecBuild : the "D" parameters built for every valid argument.          *)
(* SpecSend  : send_command alone, with and without parameter/response.    *)
(* SpecSendFair : SpecSend with a read loop that is not left suspended.    *)
(* SpecSet   : the cached setters and the camera nodes they write.         *)
(* SpecAcquire : _acquire_image, its attempts and its acquisition scope.   *)
(*                                                                         *)
(* Strings are sequences of byte values, as str.encode() produces them.    *)
(***************************************************************************)
EXTENDS Integers, Sequences, FiniteSets, TLC

(* ------------------------------ bounds -------------------------------- *)
\* number of shake() calls (hence of background tasks ever created)
MaxShakes == 2
\* self.timeout counted in wake-ups of the 0.01 s sleep of _read_until
TimeoutTicks == 1
\* max_duration / loop_wait_time of shake_continuous, scaled down
MaxWaitSteps == 1
\* ticks of the clock a read of a data body may take (60 * 3 s in the source)
LongTimeoutTicks == 2

(* -------------------------- wire alphabet ----------------------------- *)
ACK == 6
ETX == 3
\* dev.read(1) returning b"" is modelled as the empty sequence
NoByte == <<>>
\* the exact acknowledgment of the trigger command, b"\x060000\x03"
GoodAck == <<ACK, 48, 48, 48, 48, ETX>>

\* self._shaking_task = None, and "no task has the CPU"
NoTask == 0

BgTasks == 1..MaxShakes
FG == MaxShakes + 1
AllTasks == 1..FG

(* ------------------------- str / zfill / sum -------------------------- *)
RECURSIVE Str(_)
\* str(n) for n >= 0, as ASCII codes
Str(n) == IF n < 10 THEN <<48 + n>> ELSE Str(n \div 10) \o <<48 + (n % 10)>>

RECURSIVE ZFill(_, _)
\* s.zfill(w)
ZFill(s, w) == IF Len(s) >= w THEN s ELSE ZFill(<<48>> \o s, w)

RECURSIVE SumBytes(_)
\* sum(cmd.encode())
SumBytes(s) == IF s = <<>> THEN 0 ELSE Head(s) + SumBytes(Tail(s))

(* --------------------------- shake payload ---------------------------- *)
LINEAR == 0
ORBITAL == 1
ShakeTypes == {LINEAR, ORBITAL}

\* max_duration = 16 * 60
MaxDuration == 960

ShakePrime ==
  <<48,56,49,50,48,49,49,50,50,48,55,52,51,52,48,49,52,51,53,49,49,51,53,51,
    48,56,53,53,57,49,50,55,56,56,49,52,50,50,3>>

ShakeHead ==
  <<48,48,51,51,48,49,48,49,48,49,48,49,48,49,48,48,48,48,50,48,48,48,48,48,
    48,48,49,51>>

ShakeTail == <<51,48,49>>

ShakeOffset == 73

\* cmd = f"0033010101010100002000000013{duration}{shake_type_bit}301"
ShakeBody(shake_type) ==
  ShakeHead \o ZFill(Str(MaxDuration), 3) \o Str(shake_type) \o ShakeTail

\* checksum = str((sum(cmd.encode()) + 73) % 100)
ShakeChecksum(shake_type) == Str((SumBytes(ShakeBody(shake_type)) + ShakeOffset) % 100)

\* cmd = cmd + checksum + "\x03"
ShakeCmd(shake_type) == ShakeBody(shake_type) \o ShakeChecksum(shake_type) \o <<ETX>>

(* ---------------------- bounds of the arguments ----------------------- *)
\* the bounds the read operations check their arguments against
MinWavelength == 230
MaxWavelength == 999
MinFluorescence == 250
MaxFluorescence == 700
\* 4.5 and 13.88 mm
MinFocalHeight == 4500
MaxFocalHeight == 13880

(* ------------------- parameters of the read commands ------------------ *)
\* "08120112207434014351135308559127881772\x03"
ReadPrime ==
  <<48,56,49,50,48,49,49,50,50,48,55,52,51,52,48,49,52,51,53,49,49,51,53,51,
    48,56,53,53,57,49,50,55,56,56,49,55,55,50,3>>

\* "00470101010812000120010000110010000010600008"
AbsorbanceHead ==
  <<48,48,52,55,48,49,48,49,48,49,48,56,49,50,48,48,48,49,50,48,48,49,48,48,
    48,48,49,49,48,48,49,48,48,48,48,48,49,48,54,48,48,48,48,56>>

AbsorbanceTail == <<49>>

\* cmd = f"00470101010812000120010000110010000010600008{wavelength_str}1"
AbsorbanceBody(wavelength) ==
  AbsorbanceHead \o ZFill(Str(wavelength), 4) \o AbsorbanceTail

\* checksum = str(sum(cmd.encode()) % 100)
AbsorbanceChecksum(wavelength) == Str(SumBytes(AbsorbanceBody(wavelength)) % 100)

\* cmd = cmd + checksum + "\x03"
AbsorbanceCmd(wavelength) ==
  AbsorbanceBody(wavelength) \o AbsorbanceChecksum(wavelength) \o <<ETX>>

\* "008401010108120001200100001100100000135000100200200"
FluorescenceHead ==
  <<48,48,56,52,48,49,48,49,48,49,48,56,49,50,48,48,48,49,50,48,48,49,48,48,
    48,48,49,49,48,48,49,48,48,48,48,48,49,51,53,48,48,48,49,48,48,50,48,48,
    50,48,48>>

FluorescenceMid == <<48,48,48>>

\* "000000000000000000210011"
FluorescenceTail ==
  <<48,48,48,48,48,48,48,48,48,48,48,48,48,48,48,48,48,48,50,49,48,48,49,49>>

\* the 7 of (sum(cmd.encode()) + 7) % 100
FluorescenceOffset == 7

FluorescenceBody(excitation_wavelength, emission_wavelength) ==
  FluorescenceHead \o ZFill(Str(excitation_wavelength), 4) \o FluorescenceMid
    \o ZFill(Str(emission_wavelength), 4) \o FluorescenceTail

\* mutant: the fluorescence checksum without its offset
FluorescenceChecksumPlain(excitation_wavelength, emission_wavelength) ==
  Str(SumBytes(FluorescenceBody(excitation_wavelength, emission_wavelength)) % 100)

\* checksum = str((sum(cmd.encode()) + 7) % 100)
FluorescenceChecksum(excitation_wavelength, emission_wavelength) ==
  Str((SumBytes(FluorescenceBody(excitation_wavelength, emission_wavelength))
        + FluorescenceOffset) % 100)

FluorescenceCmd(excitation_wavelength, emission_wavelength) ==
  FluorescenceBody(excitation_wavelength, emission_wavelength)
    \o FluorescenceChecksum(excitation_wavelength, emission_wavelength) \o <<ETX>>

(* ------------------------ exchanges of an operation ------------------- *)
NoParam == <<>>

Exchange(c, p, w) == [cmd |-> c, par |-> p, wait |-> w]

\* shake_maximal_duration: "y" + parameter, "D" + parameter, "O"
ShakeScript(shake_type) ==
  << Exchange(<<121>>, ShakePrime, TRUE),
     Exchange(<<68>>, ShakeCmd(shake_type), TRUE),
     Exchange(<<79>>, NoParam, TRUE) >>

\* mutant: the abort waits for a response
AbortScriptWaiting == << Exchange(<<120>>, NoParam, TRUE) >>

\* _abort: send_command("x", wait_for_response=False)
AbortScript == << Exchange(<<120>>, NoParam, FALSE) >>

\* open: send_command("J")
OpenScript == << Exchange(<<74>>, NoParam, TRUE) >>

\* "008401010108120001200100001100100000123000500200200-001000-003000000000000000
\* 00001351092"
LuminescenceCmd ==
  <<48,48,56,52,48,49,48,49,48,49,48,56,49,50,48,48,48,49,50,48,48,49,48,48,
    48,48,49,49,48,48,49,48,48,48,48,48,49,50,51,48,48,48,53,48,48,50,48,48,
    50,48,48,45,48,48,49,48,48,48,45,48,48,51,48,48,48,48,48,48,48,48,48,48,
    48,48,48,48,48,48,48,48,48,49,51,53,49,48,57,50>>

\* focal heights are in thousandths of a mm, so that int(1000*focal_height) is
\* the number itself
\* cmd = f"3{14220 + int(1000*focal_height)}\x03"
LuminescenceFocus(focal_height) == <<51>> \o Str(14220 + focal_height) \o <<ETX>>

\* cmd = f"{614220 + int(1000*focal_height)}\x03"
FluorescenceFocus(focal_height) == Str(614220 + focal_height) \o <<ETX>>

\* read_absorbance: "y", "D", "O"
AbsorbanceScript(arg) ==
  << Exchange(<<121>>, ReadPrime, TRUE),
     Exchange(<<68>>, AbsorbanceCmd(arg.a), TRUE),
     Exchange(<<79>>, NoParam, TRUE) >>

\* read_luminescence: "t", "y", "D", "O"
LuminescenceScript(arg) ==
  << Exchange(<<116>>, LuminescenceFocus(arg.fh), TRUE),
     Exchange(<<121>>, ReadPrime, TRUE),
     Exchange(<<68>>, LuminescenceCmd, TRUE),
     Exchange(<<79>>, NoParam, TRUE) >>

\* read_fluorescence: "t", "y", "D", "O"
FluorescenceScript(arg) ==
  << Exchange(<<116>>, FluorescenceFocus(arg.fh), TRUE),
     Exchange(<<121>>, ReadPrime, TRUE),
     Exchange(<<68>>, FluorescenceCmd(arg.a, arg.b), TRUE),
     Exchange(<<79>>, NoParam, TRUE) >>

ReadOps == {"read_absorbance", "read_luminescence", "read_fluorescence"}

\* send_command(command, parameter, wait_for_response) called on its own: "x"
\* without a response, "J", "y" with its parameter, and "Y" with the parameter
\* "P1001" without a response
SendInputs ==
  << Exchange(<<120>>, NoParam, FALSE),
     Exchange(<<74>>, NoParam, TRUE),
     Exchange(<<121>>, ReadPrime, TRUE),
     Exchange(<<89>>, <<80, 49, 48, 48, 49>>, FALSE) >>

Script(op, arg) ==
  CASE op = "shake_continuous"  -> ShakeScript(arg.a)
    [] op = "stop_shaking"      -> AbortScript
    [] op = "stop"              -> AbortScript
    [] op = "open"              -> OpenScript
    [] op = "read_absorbance"   -> AbsorbanceScript(arg)
    [] op = "read_luminescence" -> LuminescenceScript(arg)
    [] op = "read_fluorescence" -> FluorescenceScript(arg)
    [] op = "send_command"      -> << SendInputs[arg.a] >>
    [] OTHER                    -> <<>>

(* ------------------------------- state -------------------------------- *)
VARIABLES
  shaking,       \* self._shaking
  shaking_task,  \* self._shaking_task: a task id, or NoTask for None
  task,          \* the coroutine of every task: the foreground caller and the shake tasks
  running,       \* the task that has the CPU, NoTask while the event loop chooses
  rx,            \* bytes in the receive buffer of the channel
  owed,          \* the answer the device owes for the last write: "none", "ack", "etx", "trigger"
  parse_in,      \* _parse_body: how the body handed to it is built
  parse_out,     \* _parse_body: what it returned or raised
  build_in,      \* the operation and the arguments a "D" parameter is built for
  build_out,     \* the parameter built, <<>> before it is built
  cached,        \* self._row, _column, _focal_height, _exposure, _gain, _imaging_mode
  cam,           \* self.cam and the nodes of the camera
  acq            \* _acquire_image: the call under way and the acquisition of the camera

\* the state of the serial side, and the rest
serial == <<shaking, shaking_task, task, running, rx, owed>>
parser == <<parse_in, parse_out>>
builder == <<build_in, build_out>>
settings == <<cached, cam>>
imaging == <<acq>>
others == <<parser, builder, settings, imaging>>
vars == <<shaking, shaking_task, task, running, rx, owed, parse_in, parse_out,
          build_in, build_out, cached, cam, acq>>

\* the arguments of an operation: a wavelength or shake type (or the task
\* awaited), a second wavelength, a focal height, an imaging mode
NoArg == [a |-> 0, b |-> 0, fh |-> 0, m |-> "None"]
Arg(x) == [NoArg EXCEPT !.a = x]

Blank ==
  [st |-> "none", op |-> "none", arg |-> NoArg, ex |-> 0, pc |-> "idle", ph |-> 0,
   res |-> <<>>, el |-> 0, resp |-> <<>>, waited |-> 0, cancel |-> FALSE,
   result |-> "none", args |-> <<>>, incomplete |-> <<>>, log |-> <<>>]

Finished == {"done", "cancelled", "failed"}
Alive(b) == task[b].st \in {"pending", "run"}
AliveTasks == {b \in BgTasks : Alive(b)}

\* the positions inside send_command, from its call to its return
InSend == {"sc_purge", "sc_write", "ru_read", "ru_sleep", "sc_wparam"}
InExchange(t) == task[t].pc \in InSend

CanRun(t) == running = t \/ running = NoTask

\* a Task object that has ended and that self._shaking_task does not refer to is
\* garbage: nothing can reach it any more, and its slot is free again
Collect(tk, handle) ==
  [t \in AllTasks |->
     IF t # FG /\ t # handle /\ tk[t].st \in Finished THEN Blank ELSE tk[t]]

NoBody == [pre |-> 0, n |-> 0, groups |-> 0, odd |-> 0, defect |-> "none", suf |-> 0]

\* None, and "auto", where a number is expected
None == 0 - 1
Auto == 0 - 2

\* __init__: every cached setting is None
NoSettings ==
  [row |-> None, column |-> None, focal_height |-> None, exposure |-> None,
   gain |-> None, imaging_mode |-> "None"]

\* the values of ExposureAuto and GainAuto
AutoOff == 0
AutoContinuous == 2

\* self.cam is None
NoCamera ==
  [present |-> FALSE, ExposureAuto |-> AutoOff, ExposureTime |-> 0,
   GainAuto |-> AutoOff, Gain |-> 0]

\* nothing is being built
NoBuild == [op |-> "none", a |-> 0, b |-> 0]

\* no call of _parse_body has returned
NoResult == [ok |-> FALSE, error |-> "pending"]

\* no call of _acquire_image is under way and the camera is not acquiring
NoAcquire ==
  [pc |-> "idle", num_tries |-> 0, begun |-> 0, ended |-> 0, triggers |-> 0,
   fetches |-> 0, outcomes |-> <<>>, result |-> "none", acquiring |-> FALSE]

InitSerial ==
  /\ shaking = FALSE
  /\ shaking_task = NoTask
  /\ task = [t \in AllTasks |-> IF t = FG THEN [Blank EXCEPT !.st = "run"] ELSE Blank]
  /\ running = NoTask
  /\ rx = <<>>
  /\ owed = "none"

Init ==
  /\ InitSerial
  /\ parse_in = NoBody
  /\ parse_out = NoResult
  /\ build_in = NoBuild
  /\ build_out = <<>>
  /\ cached = NoSettings
  /\ cam = NoCamera
  /\ acq = NoAcquire

(* ============================ _parse_body ============================= *)
\* num_rows = 8
NumRows == 8
\* bounds of the bodies handed to the parser: rows rendered, groups per row
MaxRows == 9
MaxGroups == 2
\* rows of the data body a read operation gets
ReadRows == 1

CR == 13
LF == 10
COMMA == 44
CRLF == <<CR, LF>>
\* b"01,01"
Marker == <<48, 49, COMMA, 48, 49>>
\* b"\r\n,"
RowSep == <<CR, LF, COMMA>>

IsPrefixAt(s, sub, i) ==
  /\ i + Len(sub) - 1 <= Len(s)
  /\ \A k \in 1..Len(sub) : s[i + k - 1] = sub[k]

\* bytes.index(sub), 1-based; 0 stands for ValueError
Index(s, sub) ==
  LET hits == {i \in 1..Len(s) : IsPrefixAt(s, sub, i)}
  IN IF hits = {} THEN 0 ELSE CHOOSE i \in hits : \A j \in hits : i <= j

RIndexFirst(s, sub) == Index(s, sub)

\* bytes.rindex(sub), 1-based; 0 stands for ValueError
RIndex(s, sub) ==
  LET hits == {i \in 1..Len(s) : IsPrefixAt(s, sub, i)}
  IN IF hits = {} THEN 0 ELSE CHOOSE i \in hits : \A j \in hits : i >= j

RECURSIVE Split(_, _)
\* bytes.split(sep): the pieces between the occurrences of sep, left to right
Split(s, sep) ==
  LET i == Index(s, sep)
  IN IF i = 0 THEN <<s>>
     ELSE <<SubSeq(s, 1, i - 1)>> \o Split(SubSeq(s, i + Len(sep), Len(s)), sep)

\* seq[:n]
Take(seq, n) == SubSeq(seq, 1, IF Len(seq) < n THEN Len(seq) ELSE n)

\* [values[i : i + 3] for i in range(0, len(values), 3)]
Groups(values) ==
  [g \in 1..((Len(values) + 2) \div 3) |->
     SubSeq(values, 3 * g - 2, IF 3 * g <= Len(values) THEN 3 * g ELSE Len(values))]

IsSpace(b) == b \in {CR, LF, 32, 9}
IsDigit(b) == b \in 48..57

RECURSIVE Strip(_)
\* leading and trailing whitespace removed, as float() does first
Strip(s) ==
  IF s = <<>> THEN s
  ELSE IF IsSpace(Head(s)) THEN Strip(Tail(s))
  ELSE IF IsSpace(s[Len(s)]) THEN Strip(SubSeq(s, 1, Len(s) - 1))
  ELSE s

RECURSIVE DigitsValue(_)
DigitsValue(s) ==
  IF s = <<>> THEN 0 ELSE 10 * DigitsValue(SubSeq(s, 1, Len(s) - 1)) + (s[Len(s)] - 48)

\* float(field.decode()) for fields of digits; -1 stands for ValueError
Float(field) ==
  LET t == Strip(field)
  IN IF t # <<>> /\ \A k \in 1..Len(t) : IsDigit(t[k]) THEN DigitsValue(t) ELSE 0 - 1

\* the inner loop over the groups of one row: the values, or the exception
ParseRow(row) ==
  LET groups == Groups(Split(row, <<COMMA>>))
      short  == {g \in 1..Len(groups) : Len(groups[g]) # 3}
      bad    == {g \in 1..Len(groups) : Len(groups[g]) = 3 /\ Float(groups[g][3]) < 0}
      first(S) == CHOOSE g \in S : \A h \in S : g <= h
  IN IF short = {} /\ bad = {} THEN [ok |-> TRUE, values |-> [g \in 1..Len(groups) |-> Float(groups[g][3])]]
     ELSE IF bad = {} \/ (short # {} /\ first(short) < first(bad))
          THEN [ok |-> FALSE, error |-> "AssertionError"]
          ELSE [ok |-> FALSE, error |-> "ValueError"]

\* _parse_body(body)
ParseBody(body) ==
  LET start_index == Index(body, Marker)
      end_index   == RIndex(body, CRLF)
  IN IF start_index = 0 \/ end_index = 0 THEN [ok |-> FALSE, error |-> "ValueError"]
     ELSE LET rows   == Take(Split(SubSeq(body, start_index, end_index - 1), RowSep), NumRows)
              parsed == [r \in 1..Len(rows) |-> ParseRow(rows[r])]
              failed == {r \in 1..Len(rows) : ~parsed[r].ok}
          IN IF failed = {}
             THEN [ok |-> TRUE, data |-> [r \in 1..Len(rows) |-> parsed[r].values]]
             ELSE [ok |-> FALSE,
                   error |-> parsed[CHOOSE r \in failed : \A q \in failed : r <= q].error]

(* ----------------- the bodies the parser is run on -------------------- *)
\* what precedes the marker: nothing, an ACK, or a header line ending in CRLF
Prefixes == << <<>>, <<ACK>>, <<48, 48, CR, LF, COMMA>> >>
\* what follows the last row: CRLF ETX, CRLF checksum ETX, or ETX without CRLF
Suffixes == << <<CR, LF, ETX>>, <<CR, LF, 50, 55, ETX>>, <<ETX>> >>
Defects == {"short", "extra", "junk", "nocomma"}

\* the reading of well (r, c), and how the instrument prints it
CellValue(r, c) == 10 * r + c
CellText(r, c) == ZFill(Str(CellValue(r, c)), 3)

RECURSIVE Join(_, _)
Join(pieces, sep) ==
  IF pieces = <<>> THEN <<>>
  ELSE IF Len(pieces) = 1 THEN pieces[1]
  ELSE pieces[1] \o sep \o Join(Tail(pieces), sep)

\* the group "rr,cc,value" of well (r, c) of body d
GroupText(d, r, c) ==
  LET rc == ZFill(Str(r), 2) \o <<COMMA>> \o ZFill(Str(c), 2)
  IN IF d.odd = r /\ c = d.groups /\ d.defect = "short" THEN rc
     ELSE IF d.odd = r /\ c = d.groups /\ d.defect = "junk" THEN rc \o <<COMMA, 120>>
     ELSE IF d.odd = r /\ c = d.groups /\ d.defect = "extra"
          THEN rc \o <<COMMA>> \o CellText(r, c) \o <<COMMA, 55>>
     ELSE rc \o <<COMMA>> \o CellText(r, c)

RowText(d, r) == Join([c \in 1..d.groups |-> GroupText(d, r, c)], <<COMMA>>)

RECURSIVE RowsText(_, _)
\* rows r..n, separated by CRLF-comma (by a bare CRLF after a "nocomma" row)
RowsText(d, r) ==
  IF r > d.n THEN <<>>
  ELSE IF r = d.n THEN RowText(d, r)
  ELSE RowText(d, r) \o (IF d.odd = r /\ d.defect = "nocomma" THEN CRLF ELSE RowSep)
       \o RowsText(d, r + 1)

\* the bytes of body d
Body(d) == Prefixes[d.pre] \o RowsText(d, 1) \o Suffixes[d.suf]

BodyShapes ==
  { d \in [pre : 1..Len(Prefixes), n : 0..MaxRows, groups : 1..MaxGroups,
           odd : 0..MaxRows, defect : Defects \cup {"none"}, suf : 1..Len(Suffixes)] :
      /\ d.odd <= d.n
      /\ (d.odd = 0) = (d.defect = "none") }

\* a body arrives from _read_until
NewBody ==
  /\ parse_out = NoResult
  /\ parse_in = NoBody
  /\ parse_in' \in BodyShapes
  /\ UNCHANGED <<serial, builder, settings, parse_out, imaging>>

\* return self._parse_body(body)
CallParseBody ==
  /\ parse_in # NoBody
  /\ parse_out = NoResult
  /\ parse_out' = ParseBody(Body(parse_in))
  /\ UNCHANGED <<serial, builder, settings, parse_in, imaging>>

\* the caller has the matrix (or the exception)
ParseReturned ==
  /\ parse_out # NoResult
  /\ parse_in' = NoBody
  /\ parse_out' = NoResult
  /\ UNCHANGED <<serial, builder, settings, imaging>>

NextParse == NewBody \/ CallParseBody \/ ParseReturned

SpecParse == Init /\ [][NextParse]_vars

\* the bodies the instrument answers a read operation with: rows of one
\* well, complete or with the value of the last well missing
ReadBodies ==
  { d \in BodyShapes : /\ d.pre = 1 /\ d.suf = 1 /\ d.groups = 1 /\ d.n = ReadRows
                       /\ d.odd \in {0, ReadRows} /\ d.defect \in {"none", "short"} }

(* ---------------------------- send_command ---------------------------- *)
Ex(r) == Script(r.op, r.arg)[r.ex]

\* the answer the device owes once it has received the command code of e:
\* ACK when a parameter follows, nothing for the abort, else a response up to ETX
OwedForCommand(e, before) ==
  IF e.par # NoParam THEN "ack"
  ELSE IF e.cmd = <<79>> THEN "trigger"
  ELSE IF e.cmd = <<120>> THEN before
  ELSE "etx"

\* the call send_command(...) for exchange k of the operation
EnterSend(r, k) ==
  [r EXCEPT !.ex = k, !.pc = "sc_purge", !.ph = 1, !.res = <<>>, !.el = 0,
            !.resp = <<>>]

\* mutant: after a timeout the exchange is sent again
RaisedOrRetried(r, t, e) ==
  IF e = "TimeoutError" /\ t = FG THEN EnterSend(r, r.ex)
  ELSE IF t = FG
  THEN [r EXCEPT !.pc = "ret", !.result = e, !.res = <<>>, !.el = 0, !.ph = 0,
                 !.ex = 0, !.resp = <<>>]
  ELSE [r EXCEPT !.st = "failed", !.pc = "end", !.result = e, !.res = <<>>,
                 !.el = 0, !.ph = 0, !.ex = 0, !.resp = <<>>, !.waited = 0,
                 !.log = <<>>]

\* an exception leaves the coroutine: the caller gets it, a task ends with it
Raised(r, t, e) ==
  IF t = FG
  THEN [r EXCEPT !.pc = "ret", !.result = e, !.res = <<>>, !.el = 0, !.ph = 0,
                 !.ex = 0, !.resp = <<>>]
  ELSE [r EXCEPT !.st = "failed", !.pc = "end", !.result = e, !.res = <<>>,
                 !.el = 0, !.ph = 0, !.ex = 0, !.resp = <<>>, !.waited = 0,
                 !.log = <<>>]

\* who has the CPU after task t took a step that left it in record r
Holder(t, r) ==
  IF r.st \in Finished \/ r.pc \in {"ru_sleep", "w_sleep", "await_task"}
  THEN NoTask ELSE t

\* for _ in range(6): purge_rx; purge_tx
PurgeRepeat == 6

\* mutant: the receive buffer is purged once
PurgeOnce == << <<"purge_rx", <<>>>>, <<"purge_tx", <<>>>> >>

PurgeEvents ==
  [i \in 1..PurgeRepeat |-> <<"purge_rx", <<>>>>] \o << <<"purge_tx", <<>>>> >>

\* the channel events of the caller's current operation (kept for the
\* foreground): the purges, the writes and the bytes read
Logged(r, t, events) == IF t = FG THEN [r EXCEPT !.log = @ \o events] ELSE r

\* await self._purge_buffers()
Purge(t) ==
  /\ CanRun(t)
  /\ task[t].pc = "sc_purge"
  /\ rx' = <<>>
  /\ task' = [task EXCEPT ![t] = Logged([@ EXCEPT !.pc = "sc_write"], t, PurgeEvents)]
  /\ running' = t
  /\ UNCHANGED <<others, shaking, shaking_task, owed>>

\* mutant: the parameter is written without waiting for the ACK
AfterCommandEager(r, t) ==
  LET r1 == Logged(r, t, << <<"write", Ex(r).cmd>> >>)
  IN IF Ex(r).par # NoParam THEN [r1 EXCEPT !.pc = "sc_wparam"]
     ELSE IF Ex(r).wait THEN [r1 EXCEPT !.pc = "ru_read", !.ph = 1, !.res = <<>>, !.el = 0]
     ELSE [r1 EXCEPT !.pc = "sc_ret"]

\* the record after send_command has written the command code
AfterCommand(r, t) ==
  LET r1 == Logged(r, t, << <<"write", Ex(r).cmd>> >>)
  IN IF Ex(r).wait \/ Ex(r).par # NoParam
     THEN [r1 EXCEPT !.pc = "ru_read", !.ph = 1, !.res = <<>>, !.el = 0]
     ELSE [r1 EXCEPT !.pc = "sc_ret"]

\* self.dev.write(command.encode()); the write may raise
WriteCommand(t) ==
  /\ CanRun(t)
  /\ task[t].pc = "sc_write"
  /\ \E ok \in BOOLEAN :
       LET r == IF ok THEN AfterCommand(task[t], t) ELSE Raised(task[t], t, "WriteError")
       IN /\ task' = Collect([task EXCEPT ![t] = r], shaking_task)
          /\ owed' = IF ok THEN OwedForCommand(Ex(task[t]), owed) ELSE owed
          /\ running' = Holder(t, r)
  /\ UNCHANGED <<others, shaking, shaking_task, rx>>

\* the terminator _read_until waits for in phase ph of the exchange
Target(r) == IF r.ph = 1 /\ Ex(r).par # NoParam THEN ACK ELSE ETX

\* _read_until has returned res in phase ph: 1 and 2 are the reads of
\* send_command, 3 is the read of the data body by a read operation
AfterRead(r, res) ==
  IF r.ph = 3
  THEN [r EXCEPT !.pc = "rd_parse", !.resp = res, !.res = <<>>, !.el = 0]
  ELSE IF r.ph = 1 /\ Ex(r).par # NoParam
  THEN [r EXCEPT !.pc = "sc_wparam", !.resp = res, !.res = <<>>, !.el = 0]
  ELSE [r EXCEPT !.pc = "sc_ret", !.resp = res, !.res = <<>>, !.el = 0]

\* if timeout is None: timeout = self.timeout; the data body gets 60 * 3 or 60 * 2
Budget(r) == IF r.ph = 3 THEN LongTimeoutTicks ELSE TimeoutTicks

\* raise TimeoutError("Timeout while waiting for response"): the bytes among
\* the arguments of the exception
TimeoutArgs(res) == <<>>

\* logger.debug("received incomplete %s", res), then the raise
TimedOut(r, t) ==
  [Raised(r, t, "TimeoutError") EXCEPT !.args = TimeoutArgs(r.res), !.incomplete = r.res]

\* mutant: the deadline is met as soon as the budget is reached
ExpiredEarly(r) == r.el >= Budget(r)

\* if time.time() - t0 > timeout
Expired(r) == r.el > Budget(r)

\* one iteration of the loop of _read_until
ReadIteration(r, t, x) ==
  LET r1 == Logged([r EXCEPT !.res = @ \o x], t,
                   IF x = NoByte THEN <<>> ELSE << <<"read", x>> >>)
  IN IF Expired(r1) THEN TimedOut(r1, t)
     ELSE IF x = NoByte THEN [r1 EXCEPT !.pc = "ru_sleep"]
     ELSE IF x = <<Target(r1)>> THEN AfterRead(r1, r1.res)
     ELSE r1

ReadByte(t) ==
  /\ CanRun(t)
  /\ task[t].pc = "ru_read"
  /\ LET x == IF rx = <<>> THEN NoByte ELSE <<Head(rx)>>
         r == ReadIteration(task[t], t, x)
     IN /\ rx' = IF rx = <<>> THEN rx ELSE Tail(rx)
        /\ task' = Collect([task EXCEPT ![t] = r], shaking_task)
        /\ running' = Holder(t, r)
  /\ UNCHANGED <<others, shaking, shaking_task, owed>>

\* await asyncio.sleep(0.01) is over; at least one tick has passed
Wake(t) ==
  /\ running = NoTask
  /\ task[t].pc = "ru_sleep"
  /\ ~task[t].cancel
  /\ \E e \in (task[t].el + 1)..(Budget(task[t]) + 1) :
       task' = [task EXCEPT ![t] = [@ EXCEPT !.pc = "ru_read", !.el = e]]
  /\ running' = t
  /\ UNCHANGED <<others, shaking, shaking_task, rx, owed>>

\* the record after send_command has written the parameter
AfterParameter(r, t) ==
  LET r1 == Logged(r, t, << <<"write", Ex(r).par>> >>)
  IN IF Ex(r).wait
     THEN [r1 EXCEPT !.pc = "ru_read", !.ph = 2, !.res = <<>>, !.el = 0]
     ELSE [r1 EXCEPT !.pc = "sc_ret"]

\* self.dev.write(parameter.encode())
WriteParameter(t) ==
  /\ CanRun(t)
  /\ task[t].pc = "sc_wparam"
  /\ \E ok \in BOOLEAN :
       LET r == IF ok THEN AfterParameter(task[t], t) ELSE Raised(task[t], t, "WriteError")
       IN /\ task' = Collect([task EXCEPT ![t] = r], shaking_task)
          /\ owed' = IF ok THEN "etx" ELSE owed
          /\ running' = Holder(t, r)
  /\ UNCHANGED <<others, shaking, shaking_task, rx>>

(* ------------------------------ device -------------------------------- *)
\* a trigger acknowledgment that is not the exact one
BadAck == <<ACK, 49, ETX>>

\* what the device sends back for the answer it owes
DeviceReplies(kind) ==
  CASE kind = "ack"     -> { <<ACK>> }
    [] kind = "etx"     -> { <<ETX>> }
    [] kind = "trigger" -> { GoodAck, BadAck }
    [] kind = "body"    -> { Body(d) : d \in ReadBodies }
    [] OTHER            -> {}

\* a read operation has armed a measurement: its data follow the exact ACK
Measuring == task[FG].op \in ReadOps

\* the device answers the last write (or never does); the bytes arrive in the
\* receive buffer
Device ==
  /\ \E reply \in DeviceReplies(owed) :
       /\ rx' = rx \o reply
       /\ owed' = IF owed = "trigger" /\ reply = GoodAck /\ Measuring
                  THEN "body" ELSE "none"
  /\ UNCHANGED <<others, shaking, shaking_task, task, running>>

(* ------------------------- shake_continuous --------------------------- *)
TaskDone(r) ==
  [r EXCEPT !.st = "done", !.pc = "end", !.ex = 0, !.ph = 0, !.waited = 0,
            !.resp = <<>>, !.log = <<>>]

\* while self._shaking: await shake_maximal_duration()
OuterLoop(r) ==
  IF shaking THEN [EnterSend(r, 1) EXCEPT !.st = "run", !.waited = 0, !.log = <<>>]
  ELSE TaskDone(r)

\* mutant: the wait has no maximum duration
WaitLoopUnbounded(r) ==
  IF shaking
  THEN [r EXCEPT !.waited = IF @ < MaxWaitSteps THEN @ + 1 ELSE @, !.pc = "w_sleep",
                 !.resp = <<>>, !.ex = 0, !.ph = 0]
  ELSE OuterLoop(r)

\* while seconds_since_start < max_duration and self._shaking: ... sleep(0.25)
WaitLoop(r) ==
  IF r.waited < MaxWaitSteps /\ shaking
  THEN [r EXCEPT !.waited = @ + 1, !.pc = "w_sleep", !.resp = <<>>, !.ex = 0, !.ph = 0]
  ELSE OuterLoop(r)

\* the event loop runs the new task for the first time
TaskStart(b) ==
  /\ running = NoTask
  /\ task[b].st = "pending"
  /\ ~task[b].cancel
  /\ LET r == OuterLoop(task[b])
     IN /\ task' = Collect([task EXCEPT ![b] = r], shaking_task)
        /\ running' = Holder(b, r)
  /\ UNCHANGED <<others, shaking, shaking_task, rx, owed>>

\* shake_maximal_duration after a send_command has returned
ShakeNext(b) ==
  /\ CanRun(b)
  /\ task[b].st = "run"
  /\ task[b].pc = "sc_ret"
  /\ LET r == task[b]
         n == IF r.ex < 3 THEN EnterSend(r, r.ex + 1)
              ELSE IF r.resp # GoodAck THEN Raised(r, b, "AssertionError")
              ELSE WaitLoop([r EXCEPT !.waited = 0])
     IN /\ task' = Collect([task EXCEPT ![b] = n], shaking_task)
        /\ running' = Holder(b, n)
  /\ UNCHANGED <<others, shaking, shaking_task, rx, owed>>

\* await asyncio.sleep(loop_wait_time) is over
WaitWake(b) ==
  /\ running = NoTask
  /\ task[b].pc = "w_sleep"
  /\ ~task[b].cancel
  /\ LET r == WaitLoop(task[b])
     IN /\ task' = Collect([task EXCEPT ![b] = r], shaking_task)
        /\ running' = Holder(b, r)
  /\ UNCHANGED <<others, shaking, shaking_task, rx, owed>>

\* a cancelled task gets CancelledError at the await it is suspended in
Cancelled(b) ==
  /\ running = NoTask
  /\ Alive(b)
  /\ task[b].cancel
  /\ task' = Collect([task EXCEPT ![b] =
       [@ EXCEPT !.st = "cancelled", !.pc = "end", !.ex = 0, !.ph = 0, !.res = <<>>,
                 !.el = 0, !.resp = <<>>, !.waited = 0, !.log = <<>>]], shaking_task)
  /\ UNCHANGED <<others, shaking, shaking_task, running, rx, owed>>

(* --------------------------- the foreground --------------------------- *)
FgIdle == CanRun(FG) /\ task[FG].pc = "idle"

StartOp(r, op) ==
  [r EXCEPT !.op = op, !.result = "none", !.args = <<>>, !.incomplete = <<>>,
            !.log = <<>>, !.resp = <<>>]

FreeSlots == BgTasks \ AliveTasks
NewTask == CHOOSE b \in FreeSlots : \A c \in FreeSlots : b <= c

\* shake(shake_type): self._shaking = True; self._shaking_task = create_task(...)
Shake(shake_type) ==
  /\ FgIdle
  /\ FreeSlots # {}
  /\ shaking' = TRUE
  /\ shaking_task' = NewTask
  /\ task' = Collect([task EXCEPT
       ![NewTask] = [Blank EXCEPT !.st = "pending", !.op = "shake_continuous",
                                  !.arg = Arg(shake_type), !.pc = "start"],
       ![FG] = [StartOp(@, "shake") EXCEPT !.pc = "ret", !.result = "ok"]], shaking_task')
  /\ running' = FG
  /\ UNCHANGED <<others, rx, owed>>

\* setup() called again: self._shaking = False; self._shaking_task = None
Setup ==
  /\ FgIdle
  /\ shaking' = FALSE
  /\ shaking_task' = NoTask
  /\ task' = Collect([task EXCEPT ![FG] = [StartOp(@, "setup") EXCEPT
                                             !.pc = "ret", !.result = "ok"]], NoTask)
  /\ running' = FG
  /\ UNCHANGED <<others, rx, owed>>

\* stop_shaking(): await self._abort()
StopShakingCall ==
  /\ FgIdle
  /\ task' = [task EXCEPT ![FG] = EnterSend(StartOp(@, "stop_shaking"), 1)]
  /\ running' = FG
  /\ UNCHANGED <<others, shaking, shaking_task, rx, owed>>

\* stop() runs stop_shaking() and goes on
StopOps == {"stop_shaking", "stop"}

\* stop_shaking() has returned: to its caller, or to stop() and self.dev.close()
Stopped(r) ==
  IF r.op = "stop" THEN [r EXCEPT !.pc = "close"]
  ELSE [r EXCEPT !.pc = "ret", !.result = "ok"]

\* the outcome of "await self._shaking_task" once the task has ended: the
\* exception the task ended with is raised here, CancelledError is swallowed
Awaited(r, h) ==
  IF task[h].st = "failed"
  THEN [r EXCEPT !.pc = "ret", !.result = task[h].result, !.arg = Arg(h)]
  ELSE Stopped([r EXCEPT !.arg = Arg(h)])

\* mutant: the task is cancelled but not awaited (fire-and-forget)
TaskEndedNotAwaited(h) == h = h

\* "await self._shaking_task" lets the caller go on only once the task has ended
TaskEnded(h) == task[h].st \in Finished

\* stop_shaking() after _abort has returned: flag, cancel, await
StopShakingAfterAbort ==
  /\ CanRun(FG)
  /\ task[FG].op \in StopOps
  /\ task[FG].pc = "sc_ret"
  /\ shaking' = FALSE
  /\ LET h == shaking_task
         r == [task[FG] EXCEPT !.ex = 0, !.ph = 0]
     IN IF h = NoTask
        THEN /\ shaking_task' = NoTask
             /\ task' = [task EXCEPT ![FG] = Stopped(r)]
             /\ running' = FG
        ELSE IF TaskEnded(h)
        THEN /\ shaking_task' = IF task[h].st = "failed" THEN h ELSE NoTask
             /\ task' = Collect([task EXCEPT ![FG] = Awaited(r, h)], shaking_task')
             /\ running' = FG
        ELSE /\ shaking_task' = h
             /\ task' = [task EXCEPT ![h] = [@ EXCEPT !.cancel = TRUE],
                                     ![FG] = [r EXCEPT !.pc = "await_task", !.arg = Arg(h)]]
             /\ running' = NoTask
  /\ UNCHANGED <<others, rx, owed>>

\* the awaited task has ended: CancelledError is swallowed, the handle cleared
StopShakingResume ==
  /\ running = NoTask
  /\ task[FG].pc = "await_task"
  /\ TaskEnded(shaking_task)
  /\ shaking_task' = IF task[shaking_task].st = "failed" THEN shaking_task ELSE NoTask
  /\ task' = Collect([task EXCEPT ![FG] = Awaited(@, shaking_task)], shaking_task')
  /\ running' = FG
  /\ UNCHANGED <<others, shaking, rx, owed>>

\* stop(): await self.stop_shaking()
StopCall ==
  /\ FgIdle
  /\ task' = [task EXCEPT ![FG] = EnterSend(StartOp(@, "stop"), 1)]
  /\ running' = FG
  /\ UNCHANGED <<others, shaking, shaking_task, rx, owed>>

CloseEvent == <<"close", <<>>>>

\* stop(): self.dev.close()
StopClose ==
  /\ CanRun(FG)
  /\ task[FG].op = "stop"
  /\ task[FG].pc = "close"
  /\ task' = [task EXCEPT ![FG] =
       [Logged(@, FG, <<CloseEvent>>) EXCEPT !.pc = "ret", !.result = "ok"]]
  /\ running' = FG
  /\ UNCHANGED <<others, shaking, shaking_task, rx, owed>>

\* open(): return await self.send_command("J")
OpenCall ==
  /\ FgIdle
  /\ task' = [task EXCEPT ![FG] = EnterSend(StartOp(@, "open"), 1)]
  /\ running' = FG
  /\ UNCHANGED <<others, shaking, shaking_task, rx, owed>>

OpenReturn ==
  /\ CanRun(FG)
  /\ task[FG].op = "open"
  /\ task[FG].pc = "sc_ret"
  /\ task' = [task EXCEPT ![FG] = [@ EXCEPT !.pc = "ret", !.result = "ok", !.ex = 0,
                                            !.ph = 0, !.resp = <<>>]]
  /\ running' = FG
  /\ UNCHANGED <<others, shaking, shaking_task, rx, owed>>

\* send_command(...) called by the caller itself
SendCall ==
  /\ FgIdle
  /\ \E k \in 1..Len(SendInputs) :
       task' = [task EXCEPT ![FG] =
         EnterSend([StartOp(@, "send_command") EXCEPT !.arg = Arg(k)], 1)]
  /\ running' = FG
  /\ UNCHANGED <<others, shaking, shaking_task, rx, owed>>

\* return response
SendReturn ==
  /\ CanRun(FG)
  /\ task[FG].op = "send_command"
  /\ task[FG].pc = "sc_ret"
  /\ task' = [task EXCEPT ![FG] = [@ EXCEPT !.pc = "ret", !.result = "ok", !.ex = 0,
                                            !.ph = 0]]
  /\ running' = FG
  /\ UNCHANGED <<others, shaking, shaking_task, rx, owed>>

(* -------------------------- read operations --------------------------- *)
\* if not 230 <= wavelength <= 999
ValidWavelength(wavelength) == MinWavelength <= wavelength /\ wavelength <= MaxWavelength

\* if not 4.5 <= focal_height <= 13.88
ValidFocalHeight(focal_height) ==
  MinFocalHeight <= focal_height /\ focal_height <= MaxFocalHeight

\* mutant: the fluorescence wavelengths are not checked
AnyFluorescence(wavelength) == TRUE

\* if not 250 <= excitation_wavelength <= 700, and the same for the emission
ValidFluorescence(wavelength) == MinFluorescence <= wavelength /\ wavelength <= MaxFluorescence

ValidArgs(op, arg) ==
  CASE op = "read_absorbance"   -> ValidWavelength(arg.a)
    [] op = "read_luminescence" -> ValidFocalHeight(arg.fh)
    [] op = "read_fluorescence" ->
         ValidFocalHeight(arg.fh) /\ ValidFluorescence(arg.a) /\ ValidFluorescence(arg.b)

\* the arguments the caller tries: the bounds and their neighbours
WavelengthInputs == {MinWavelength - 1, MinWavelength, MaxWavelength, MaxWavelength + 1}
FocalHeightInputs == {MinFocalHeight - 1, MinFocalHeight, MaxFocalHeight, MaxFocalHeight + 1}
FluorescenceInputs == {MinFluorescence - 1, MinFluorescence, MaxFluorescence, MaxFluorescence + 1}

ReadArgs(op) ==
  CASE op = "read_absorbance"   -> [a : WavelengthInputs, b : {0}, fh : {0}, m : {"None"}]
    [] op = "read_luminescence" -> [a : {0}, b : {0}, fh : FocalHeightInputs, m : {"None"}]
    [] op = "read_fluorescence" ->
         [a : FluorescenceInputs, b : FluorescenceInputs, fh : FocalHeightInputs,
          m : {"None"}]

\* read_absorbance / read_luminescence / read_fluorescence up to the first await
ReadCall(op) ==
  /\ FgIdle
  /\ \E arg \in ReadArgs(op) :
       LET r == [StartOp(task[FG], op) EXCEPT !.arg = arg]
       IN task' = [task EXCEPT ![FG] =
            IF ValidArgs(op, arg) THEN EnterSend(r, 1) ELSE Raised(r, FG, "ValueError")]
  /\ running' = FG
  /\ UNCHANGED <<others, shaking, shaking_task, rx, owed>>

\* mutant: the response to the trigger is not checked
AnyTrigger(resp) == TRUE

\* assert resp == b"\x060000\x03"
TriggerAccepted(resp) == resp = GoodAck

\* a send_command of the read operation has returned: the next one, and after
\* the trigger "assert resp == ..." and body = await self._read_until(b"\x03", ...)
ReadNext ==
  /\ CanRun(FG)
  /\ task[FG].op \in ReadOps
  /\ task[FG].pc = "sc_ret"
  /\ LET r == task[FG]
         n == IF r.ex < Len(Script(r.op, r.arg)) THEN EnterSend(r, r.ex + 1)
              ELSE IF ~TriggerAccepted(r.resp) THEN Raised(r, FG, "AssertionError")
              ELSE [r EXCEPT !.pc = "ru_read", !.ph = 3, !.res = <<>>, !.el = 0]
     IN task' = [task EXCEPT ![FG] = n]
  /\ running' = FG
  /\ UNCHANGED <<others, shaking, shaking_task, rx, owed>>

\* return self._parse_body(body)
ReadParse ==
  /\ CanRun(FG)
  /\ task[FG].op \in ReadOps
  /\ task[FG].pc = "rd_parse"
  /\ LET out == ParseBody(task[FG].resp)
         r == [task[FG] EXCEPT !.ex = 0, !.ph = 0, !.resp = <<>>]
     IN /\ parse_out' = out
        /\ task' = [task EXCEPT ![FG] =
             IF out.ok THEN [r EXCEPT !.pc = "ret", !.result = "ok"]
             ELSE Raised(r, FG, out.error)]
  /\ running' = FG
  /\ UNCHANGED <<shaking, shaking_task, rx, owed, parse_in, builder, settings, imaging>>

(* ------------------------------ setters ------------------------------- *)
\* the channel events of a send_command(command, parameter) that returns
SendEvents(e) ==
  PurgeEvents \o << <<"write", e.cmd>> >>
    \o (IF e.par # NoParam THEN << <<"read", <<ACK>>>>, <<"write", e.par>> >> ELSE <<>>)
    \o << <<"read", <<ETX>>>> >>

\* the ways a send_command raises: the write of the command raises, or no
\* answer comes after it
SendFailures == {"WriteError", "TimeoutError"}

\* the channel events of a send_command that raises f
FailEvents(e, f) ==
  IF f = "WriteError" THEN PurgeEvents ELSE PurgeEvents \o << <<"write", e.cmd>> >>

\* how far a sequence of send_command calls gets: k of them return, and then
\* either the sequence is over or the next one raises
Outcomes(script) ==
  {[k |-> Len(script), fail |-> "ok"]} \cup [k : 0..(Len(script) - 1), fail : SendFailures]

RECURSIVE ScriptEvents(_, _)
ScriptEvents(script, k) ==
  IF k = 0 THEN <<>> ELSE ScriptEvents(script, k - 1) \o SendEvents(script[k])

RunEvents(script, o) ==
  ScriptEvents(script, o.k)
    \o (IF o.fail = "ok" THEN <<>> ELSE FailEvents(script[o.k + 1], o.fail))

\* the caller's record when the setter op(arg) is over
Done(op, arg, result, events) ==
  [StartOp(task[FG], op) EXCEPT !.arg = arg, !.pc = "ret", !.result = result,
                                !.log = events]

\* mutant: a setter that never finds its value cached
NeverSet(requested, current) == FALSE

\* if exposure == self._exposure: ... return (and the like in every setter)
AlreadySet(requested, current) == requested = current

\* select: "Y" "Z1260101000000000000", then "Y" f"W6{row_str}{column_str}"
SelectScript(row, column) ==
  << Exchange(<<89>>, <<90,49,50,54,48,49,48,49,48,48,48,48,48,48,48,48,48,48,48,48>>, TRUE),
     Exchange(<<89>>, <<87,54>> \o ZFill(Str(row), 2) \o ZFill(Str(column), 2), TRUE) >>

SelectInputs == {<<1, 1>>, <<1, 2>>}

\* select(row, column)
Select ==
  /\ FgIdle
  /\ \E well \in SelectInputs :
       LET arg == [NoArg EXCEPT !.a = well[1], !.b = well[2]]
       IN IF AlreadySet(well, <<cached.row, cached.column>>)
          THEN /\ task' = [task EXCEPT ![FG] = Done("select", arg, "ok", <<>>)]
               /\ cached' = cached
          ELSE \E o \in Outcomes(SelectScript(well[1], well[2])) :
                 /\ task' = [task EXCEPT ![FG] =
                      Done("select", arg, o.fail, RunEvents(SelectScript(well[1], well[2]), o))]
                 /\ cached' = IF o.fail = "ok"
                              THEN [cached EXCEPT !.row = well[1], !.column = well[2]]
                              ELSE cached
  /\ running' = FG
  /\ UNCHANGED <<shaking, shaking_task, rx, owed, parser, builder, cam, imaging>>

\* focus_integer = int(focal_position + intercept + slope * focal_position * 1000):
\* in integers, for a focal position in thousandths of a mm
FocusInteger(focal_position) ==
  (10638 * focal_position + (991 * focal_position) \div 1000 + 1024) \div 1000

\* set_focus: "Y" "Z1560101000000000000", then "i" f"F50{focus_str}"
FocusScript(focal_position) ==
  << Exchange(<<89>>, <<90,49,53,54,48,49,48,49,48,48,48,48,48,48,48,48,48,48,48,48>>, TRUE),
     Exchange(<<105>>, <<70,53,48>> \o ZFill(Str(FocusInteger(focal_position)), 5), TRUE) >>

FocusInputs == {Auto, 3000, 4500}

\* set_focus(focal_position)
SetFocus ==
  /\ FgIdle
  /\ \E focal_position \in FocusInputs :
       LET arg == [NoArg EXCEPT !.fh = focal_position]
       IN IF AlreadySet(focal_position, cached.focal_height)
          THEN /\ task' = [task EXCEPT ![FG] = Done("set_focus", arg, "ok", <<>>)]
               /\ cached' = cached
          ELSE IF focal_position = Auto
          THEN /\ task' = [task EXCEPT ![FG] =
                    Done("set_focus", arg, "NotImplementedError", <<>>)]
               /\ cached' = cached
          ELSE \E o \in Outcomes(FocusScript(focal_position)) :
                 /\ task' = [task EXCEPT ![FG] =
                      Done("set_focus", arg, o.fail, RunEvents(FocusScript(focal_position), o))]
                 /\ cached' = IF o.fail = "ok"
                              THEN [cached EXCEPT !.focal_height = focal_position]
                              ELSE cached
  /\ running' = FG
  /\ UNCHANGED <<shaking, shaking_task, rx, owed, parser, builder, cam, imaging>>

\* the camera setup(use_cam=True) finds, its nodes as the factory left them
Camera ==
  [present |-> TRUE, ExposureAuto |-> AutoContinuous, ExposureTime |-> 0,
   GainAuto |-> AutoContinuous, Gain |-> 0]

\* what ExposureTime.GetMin() / GetMax() and Gain.GetMin() / GetMax() return
Limits == [min_et |-> 10, max_et |-> 30000, min_gain |-> 0, max_gain |-> 24]

\* setup(use_cam=True): self._shaking = False; self._shaking_task = None;
\* self.cam = ...
SetupCamera ==
  /\ FgIdle
  /\ ~cam.present
  /\ AliveTasks = {}
  /\ shaking' = FALSE
  /\ shaking_task' = NoTask
  /\ cam' = Camera
  /\ running' = FG
  /\ UNCHANGED <<task, rx, owed, parser, builder, cached, imaging>>

ExposureInputs == {Auto, 0, 5}

\* set_exposure(exposure), exposure in ms
SetExposure ==
  /\ FgIdle
  /\ \E exposure \in ExposureInputs, rw \in BOOLEAN :
       LET arg == [NoArg EXCEPT !.a = exposure]
           off == << <<"ExposureAuto", <<AutoOff>>>> >>
           exposure_us == exposure * 1000
           end(result, events, c, e) ==
             /\ task' = [task EXCEPT ![FG] = Done("set_exposure", arg, result, events)]
             /\ cam' = c
             /\ cached' = [cached EXCEPT !.exposure = e]
       IN IF AlreadySet(exposure, cached.exposure)
          THEN end("ok", <<>>, cam, cached.exposure)
          ELSE IF ~cam.present
          THEN end("ValueError", <<>>, cam, cached.exposure)
          ELSE IF exposure = Auto
          THEN IF ~rw THEN end("RuntimeError", <<>>, cam, cached.exposure)
               ELSE end("ok", << <<"ExposureAuto", <<AutoContinuous>>>> >>,
                        [cam EXCEPT !.ExposureAuto = AutoContinuous], Auto)
          ELSE LET c == [cam EXCEPT !.ExposureAuto = AutoOff]
               IN IF ~rw THEN end("RuntimeError", off, c, cached.exposure)
                  ELSE IF exposure_us < Limits.min_et \/ exposure_us > Limits.max_et
                  THEN end("ValueError", off, c, cached.exposure)
                  ELSE end("ok", off \o << <<"ExposureTime", <<exposure_us>>>> >>,
                           [c EXCEPT !.ExposureTime = exposure_us], exposure)
  /\ running' = FG
  /\ UNCHANGED <<shaking, shaking_task, rx, owed, parser, builder, imaging>>

GainInputs == {Auto, 10, 30, 31}

\* set_gain(gain)
SetGain ==
  /\ FgIdle
  /\ \E gain \in GainInputs, stage \in {"ok", "GainAuto", "entry", "Gain"} :
       LET arg == [NoArg EXCEPT !.a = gain]
           auto == IF gain = Auto THEN AutoContinuous ELSE AutoOff
           c == [cam EXCEPT !.GainAuto = auto]
           set == << <<"GainAuto", <<auto>>>> >>
           end(result, events, cm, g) ==
             /\ task' = [task EXCEPT ![FG] = Done("set_gain", arg, result, events)]
             /\ cam' = cm
             /\ cached' = [cached EXCEPT !.gain = g]
       IN IF ~cam.present
          THEN end("ValueError", <<>>, cam, cached.gain)
          ELSE IF AlreadySet(gain, cached.gain)
          THEN end("ok", <<>>, cam, cached.gain)
          ELSE IF ~(gain = Auto \/ (0 <= gain /\ gain <= 30))
          THEN end("ValueError", <<>>, cam, cached.gain)
          ELSE IF stage \in {"GainAuto", "entry"}
          THEN end("RuntimeError", <<>>, cam, cached.gain)
          ELSE IF gain = Auto
          THEN end("ok", set, c, Auto)
          ELSE IF stage = "Gain"
          THEN end("RuntimeError", set, c, cached.gain)
          ELSE IF gain < Limits.min_gain \/ gain > Limits.max_gain
          THEN end("ValueError", set, c, cached.gain)
          ELSE end("ok", set \o << <<"Gain", <<gain>>>> >>, [c EXCEPT !.Gain = gain], gain)
  /\ running' = FG
  /\ UNCHANGED <<shaking, shaking_task, rx, owed, parser, builder, imaging>>

Modes == {"BRIGHTFIELD", "GFP", "TEXAS_RED", "PHASE_CONTRAST", "COLOR_BRIGHTFIELD"}

Y(parameter) == Exchange(<<89>>, parameter, TRUE)
I(parameter) == Exchange(<<105>>, parameter, TRUE)

\* led_off: "i" "L0001"
LedOff == I(<<76,48,48,48,49>>)

\* led_on(intensity=10): "i" f"L{imaging_mode_code}{intensity_str}"
LedOn(mode) ==
  I(<<76>> \o (CASE mode = "BRIGHTFIELD"    -> <<48,53>>
                 [] mode = "GFP"            -> <<48,50>>
                 [] mode = "TEXAS_RED"      -> <<48,51>>
                 [] mode = "PHASE_CONTRAST" -> <<48,55>>) \o ZFill(Str(10), 2))

\* the commands of set_imaging_mode between led_off and led_on
ModeScript(mode) ==
  CASE mode = "PHASE_CONTRAST" ->
         << Y(<<80,49,49,50,48>>), Y(<<80,48,100,48,53>>), Y(<<80,49,48,48,50>>) >>
    [] mode = "BRIGHTFIELD" ->
         << Y(<<90,49,53,48,48,48,48,48,48,48,48,48,48,48,48,48,48,48,48,48>>),
            I(<<70,53,48,48,48,48,48,48>>), I(<<87,48,48,48,48,48,48>>),
            Y(<<80,49,49,48,49>>), Y(<<80,48,100,48,53>>), Y(<<80,49,48,48,50>>) >>
    [] mode = "GFP" ->
         << Y(<<80,49,49,48,49>>), Y(<<80,48,100,48,50>>), Y(<<80,49,48,48,49>>) >>
    [] mode = "TEXAS_RED" ->
         << Y(<<80,49,49,48,49>>), Y(<<80,48,100,48,51>>), Y(<<80,49,48,48,49>>) >>

ImagingModeScript(mode) == <<LedOff>> \o ModeScript(mode) \o <<LedOn(mode)>>

\* set_imaging_mode(mode): self._imaging_mode = mode comes before led_on
SetImagingMode ==
  /\ FgIdle
  /\ \E mode \in Modes :
       LET arg == [NoArg EXCEPT !.m = mode]
           end(result, events, m) ==
             /\ task' = [task EXCEPT ![FG] = Done("set_imaging_mode", arg, result, events)]
             /\ cached' = [cached EXCEPT !.imaging_mode = m]
       IN IF ~cam.present
          THEN end("ValueError", <<>>, cached.imaging_mode)
          ELSE IF AlreadySet(mode, cached.imaging_mode)
          THEN end("ok", <<>>, cached.imaging_mode)
          ELSE IF mode = "COLOR_BRIGHTFIELD"
          THEN end("NotImplementedError", <<>>, cached.imaging_mode)
          ELSE \E o \in Outcomes(ImagingModeScript(mode)) :
                 end(o.fail, RunEvents(ImagingModeScript(mode), o),
                     IF o.k >= Len(ImagingModeScript(mode)) - 1
                     THEN mode ELSE cached.imaging_mode)
  /\ running' = FG
  /\ UNCHANGED <<shaking, shaking_task, rx, owed, parser, builder, cam, imaging>>

(* -------------------------- _acquire_image ---------------------------- *)
\* self.max_image_read_attempts = 8
MaxImageReadAttempts == 8

\* how the body of the inner try ends: with the return of the converted image,
\* with an incomplete image, or with a SpinnakerException that is caught
FetchOutcomes == {"image", "incomplete", "SpinnakerException"}

\* mutant: one attempt more than max_image_read_attempts
TriesLeftInclusive(num_tries) == num_tries <= MaxImageReadAttempts

\* while num_tries < self.max_image_read_attempts
TriesLeft(num_tries) == num_tries < MaxImageReadAttempts

\* mutant: EndAcquisition only after the return of an image
EndOnReturnOnly(r, result) ==
  IF result = "image" THEN [r EXCEPT !.pc = "finally", !.result = result]
  ELSE [r EXCEPT !.pc = "ret", !.result = result]

\* a return or an exception leaves the try block: the finally clause is next
LeaveTry(r, result) == [r EXCEPT !.pc = "finally", !.result = result]

\* _acquire_image(): assert self.cam is not None; self.cam.BeginAcquisition()
AcquireCall ==
  /\ FgIdle
  /\ acq.pc = "idle"
  /\ acq' = IF cam.present
            THEN [acq EXCEPT !.pc = "loop", !.begun = @ + 1, !.acquiring = TRUE]
            ELSE [acq EXCEPT !.pc = "ret", !.result = "AssertionError"]
  /\ running' = FG
  /\ UNCHANGED <<shaking, shaking_task, task, rx, owed, parser, builder, settings>>

\* the head of the loop: the software trigger, or TimeoutError after the loop
AcquireTrigger ==
  /\ acq.pc = "loop"
  /\ \E writable \in BOOLEAN :
       acq' = IF ~TriesLeft(acq.num_tries) THEN LeaveTry(acq, "TimeoutError")
              ELSE IF ~writable THEN LeaveTry(acq, "RuntimeError")
              ELSE [acq EXCEPT !.pc = "fetch", !.triggers = @ + 1]
  /\ UNCHANGED <<serial, parser, builder, settings>>

\* image_result = self.cam.GetNextImage(1000) and the rest of the inner try;
\* num_tries += 1 when no image was returned
AcquireFetch ==
  /\ acq.pc = "fetch"
  /\ \E o \in FetchOutcomes :
       LET r == [acq EXCEPT !.fetches = @ + 1, !.outcomes = Append(@, o)]
       IN acq' = IF o = "image" THEN LeaveTry(r, "image")
                 ELSE [r EXCEPT !.pc = "sleep", !.num_tries = @ + 1]
  /\ UNCHANGED <<serial, parser, builder, settings>>

\* await asyncio.sleep(0.3) is over
AcquireWake ==
  /\ acq.pc = "sleep"
  /\ acq' = [acq EXCEPT !.pc = "loop"]
  /\ UNCHANGED <<serial, parser, builder, settings>>

\* the caller is cancelled while it sleeps: CancelledError at the await
AcquireCancelled ==
  /\ acq.pc = "sleep"
  /\ acq' = LeaveTry(acq, "CancelledError")
  /\ UNCHANGED <<serial, parser, builder, settings>>

\* finally: self.cam.EndAcquisition()
AcquireFinally ==
  /\ acq.pc = "finally"
  /\ acq' = [acq EXCEPT !.pc = "ret", !.ended = @ + 1, !.acquiring = FALSE]
  /\ UNCHANGED <<serial, parser, builder, settings>>

\* the call has returned or raised
AcquireReturn ==
  /\ acq.pc = "ret"
  /\ acq' = NoAcquire
  /\ UNCHANGED <<serial, parser, builder, settings>>

\* the operation has returned or raised: the caller goes on
Return ==
  /\ CanRun(FG)
  /\ task[FG].pc = "ret"
  /\ task' = [task EXCEPT ![FG] = [Blank EXCEPT !.st = "run"]]
  /\ running' = FG
  /\ parse_out' = NoResult
  /\ UNCHANGED <<shaking, shaking_task, rx, owed, parse_in, builder, settings, imaging>>

\* the caller awaits something else between two operations
CallerYield ==
  /\ running = FG
  /\ task[FG].pc = "idle"
  /\ running' = NoTask
  /\ UNCHANGED <<others, shaking, shaking_task, task, rx, owed>>

Next ==
  \/ \E s \in ShakeTypes : Shake(s)
  \/ StopShakingCall
  \/ StopShakingAfterAbort
  \/ StopShakingResume
  \/ Return
  \/ CallerYield
  \/ \E t \in AllTasks : Purge(t)
  \/ \E t \in AllTasks : WriteCommand(t)
  \/ \E t \in AllTasks : ReadByte(t)
  \/ \E t \in AllTasks : Wake(t)
  \/ \E t \in AllTasks : WriteParameter(t)
  \/ \E b \in BgTasks : TaskStart(b)
  \/ \E b \in BgTasks : ShakeNext(b)
  \/ \E b \in BgTasks : WaitWake(b)
  \/ \E b \in BgTasks : Cancelled(b)
  \/ Device

Spec == Init /\ [][Next]_vars

(* one shake session, and a foreground command with a response beside it *)
ShakeOnce(shake_type) == AliveTasks = {} /\ Shake(shake_type)

NextOne ==
  \/ \E s \in ShakeTypes : ShakeOnce(s)
  \/ StopShakingCall
  \/ StopShakingAfterAbort
  \/ StopShakingResume
  \/ StopCall
  \/ StopClose
  \/ OpenCall
  \/ OpenReturn
  \/ Return
  \/ CallerYield
  \/ \E t \in AllTasks : Purge(t)
  \/ \E t \in AllTasks : WriteCommand(t)
  \/ \E t \in AllTasks : ReadByte(t)
  \/ \E t \in AllTasks : Wake(t)
  \/ \E t \in AllTasks : WriteParameter(t)
  \/ \E b \in BgTasks : TaskStart(b)
  \/ \E b \in BgTasks : ShakeNext(b)
  \/ \E b \in BgTasks : WaitWake(b)
  \/ \E b \in BgTasks : Cancelled(b)
  \/ Device

SpecOne == Init /\ [][NextOne]_vars

(* one shake session at a time, stopped by stop_shaking() or dropped by a second
   setup(), under the scheduling of asyncio: the caller goes on until it awaits
   something that suspends it, and a task that is ready to run is run *)
BgStep(b) ==
  \/ Purge(b)
  \/ WriteCommand(b)
  \/ ReadByte(b)
  \/ Wake(b)
  \/ WriteParameter(b)
  \/ TaskStart(b)
  \/ ShakeNext(b)
  \/ WaitWake(b)
  \/ Cancelled(b)

FgStep ==
  \/ Purge(FG)
  \/ WriteCommand(FG)
  \/ StopShakingAfterAbort
  \/ StopShakingResume
  \/ Return

NextShake ==
  \/ \E s \in ShakeTypes : ShakeOnce(s)
  \/ Setup
  \/ StopShakingCall
  \/ CallerYield
  \/ FgStep
  \/ \E b \in BgTasks : BgStep(b)
  \/ Device

SpecShake ==
  /\ Init
  /\ [][NextShake]_vars
  /\ WF_vars(FgStep)
  /\ SF_vars(CallerYield)
  /\ \A b \in BgTasks : SF_vars(BgStep(b))

(* the read operations of a caller, no shake session beside them *)
NextRead ==
  \/ \E op \in ReadOps : ReadCall(op)
  \/ ReadNext
  \/ ReadParse
  \/ OpenCall
  \/ OpenReturn
  \/ Return
  \/ Purge(FG)
  \/ WriteCommand(FG)
  \/ ReadByte(FG)
  \/ Wake(FG)
  \/ WriteParameter(FG)
  \/ Device

SpecRead == Init /\ [][NextRead]_vars

(* send_command on its own, with and without parameter and response *)
NextSend ==
  \/ SendCall
  \/ SendReturn
  \/ Return
  \/ Purge(FG)
  \/ WriteCommand(FG)
  \/ ReadByte(FG)
  \/ Wake(FG)
  \/ WriteParameter(FG)
  \/ Device

SpecSend == Init /\ [][NextSend]_vars

(* the same with a read loop that goes on: the coroutine is resumed after its
   sleep and runs its next iteration *)
SpecSendFair == SpecSend /\ WF_vars(ReadByte(FG)) /\ WF_vars(Wake(FG))

(* the setters of a caller, no shake session beside them *)
NextSet ==
  \/ SetupCamera
  \/ Select
  \/ SetFocus
  \/ SetExposure
  \/ SetGain
  \/ SetImagingMode
  \/ Return

SpecSet == Init /\ [][NextSet]_vars

(* the acquisition of an image, with and without a camera *)
NextAcquire ==
  \/ SetupCamera
  \/ AcquireCall
  \/ AcquireTrigger
  \/ AcquireFetch
  \/ AcquireWake
  \/ AcquireCancelled
  \/ AcquireFinally
  \/ AcquireReturn

SpecAcquire == Init /\ [][NextAcquire]_vars

(* ===================== building the "D" parameters ==================== *)
\* read_absorbance builds its parameter for a wavelength it has accepted
BuildAbsorbance ==
  /\ build_in = NoBuild
  /\ \E w \in MinWavelength..MaxWavelength :
       /\ build_in' = [op |-> "read_absorbance", a |-> w, b |-> 0]
       /\ build_out' = AbsorbanceCmd(w)
  /\ UNCHANGED <<serial, parser, settings, imaging>>

\* read_fluorescence builds its parameter for the wavelengths it has accepted
BuildFluorescence ==
  /\ build_in = NoBuild
  /\ \E ex \in MinFluorescence..MaxFluorescence, em \in MinFluorescence..MaxFluorescence :
       /\ build_in' = [op |-> "read_fluorescence", a |-> ex, b |-> em]
       /\ build_out' = FluorescenceCmd(ex, em)
  /\ UNCHANGED <<serial, parser, settings, imaging>>

\* shake_maximal_duration builds its parameter
BuildShake ==
  /\ build_in = NoBuild
  /\ \E shake_type \in ShakeTypes :
       /\ build_in' = [op |-> "shake", a |-> shake_type, b |-> 0]
       /\ build_out' = ShakeCmd(shake_type)
  /\ UNCHANGED <<serial, parser, settings, imaging>>

\* the parameter has been handed to send_command
BuildUsed ==
  /\ build_in # NoBuild
  /\ build_in' = NoBuild
  /\ build_out' = <<>>
  /\ UNCHANGED <<serial, parser, settings, imaging>>

NextBuild == BuildAbsorbance \/ BuildFluorescence \/ BuildShake \/ BuildUsed

SpecBuild == Init /\ [][NextBuild]_vars

(* ======================= claims: shake session ======================== *)

\* the foreground operation op has just returned or raised
FgReturned(op) == task[FG].pc = "ret" /\ task[FG].op = op

RECURSIVE Count(_, _)
\* number of occurrences of event e in a log
Count(log, e) ==
  IF log = <<>> THEN 0
  ELSE (IF Head(log) = e THEN 1 ELSE 0) + Count(Tail(log), e)

AbortWrite == <<"write", <<120>>>>

\* C1: no exchange of the foreground is under way (called and not yet returned)
\* while an exchange of a background shake task is under way.
C1_ExchangesExclusive ==
  ~(InExchange(FG) /\ \E b \in BgTasks : InExchange(b))

\* C2: when stop_shaking() returns, exactly one abort 'x' has been written, the
\* flag is false, the handle is cleared and no background task is left alive.
C2_ShakeLifecycle ==
  (FgReturned("stop_shaking") /\ task[FG].result = "ok")
    => /\ Count(task[FG].log, AbortWrite) = 1
       /\ shaking = FALSE
       /\ shaking_task = NoTask
       /\ AliveTasks = {}

\* C2 witness: stop_shaking() has returned after cancelling and awaiting a task
C2_Witness ==
  /\ FgReturned("stop_shaking")
  /\ task[FG].result = "ok"
  /\ task[FG].arg.a \in BgTasks

\* C3: at most one background shake task is alive at a time.
C3_AtMostOneShakeTask == Cardinality(AliveTasks) <= 1

\* C4: a stop_shaking() whose abort write failed still leaves the flag cleared
\* and no background task alive.
C4_BestEffortStop ==
  (FgReturned("stop_shaking") /\ task[FG].result = "WriteError")
    => (shaking = FALSE /\ AliveTasks = {})

(* ====================== claims: read operations ======================= *)
\* the arguments of the read operation of record r break a bound
InvalidRead(r) ==
  \/ r.op = "read_absorbance" /\ (r.arg.a < 230 \/ r.arg.a > 999)
  \/ r.op = "read_luminescence" /\ (r.arg.fh < 4500 \/ r.arg.fh > 13880)
  \/ r.op = "read_fluorescence" /\ \/ r.arg.fh < 4500 \/ r.arg.fh > 13880
                                   \/ r.arg.a < 250 \/ r.arg.a > 700
                                   \/ r.arg.b < 250 \/ r.arg.b > 700

\* C5: a read operation called with an argument outside its bounds raises the
\* validation error in the step of the call: no purge, no write and no read
\* has happened on the channel, and no state has changed.
C5_ValidationBeforeIO ==
  [][ ( /\ task[FG].pc = "idle"
        /\ task'[FG].op \in ReadOps
        /\ InvalidRead(task'[FG]) )
      => /\ task'[FG].pc = "ret"
         /\ task'[FG].result = "ValueError"
         /\ task'[FG].log = <<>>
         /\ \A b \in BgTasks : task'[b] = task[b]
         /\ UNCHANGED <<shaking, shaking_task, rx, owed, others>> ]_vars

C5_Witness ==
  /\ task[FG].pc = "ret"
  /\ task[FG].op = "read_fluorescence"
  /\ task[FG].arg = [a |-> 250, b |-> 701, fh |-> 4500, m |-> "None"]
  /\ task[FG].result = "ValueError"
  /\ task[FG].log = <<>>
  /\ rx # <<>>

(* ========================== claims: setters =========================== *)
Setters == {"select", "set_focus", "set_exposure", "set_gain", "set_imaging_mode"}

\* the value the setter call of record r asks for is the cached value c
SameAsCached(r, c) ==
  CASE r.op = "select"           -> r.arg.a = c.row /\ r.arg.b = c.column
    [] r.op = "set_focus"        -> r.arg.fh = c.focal_height
    [] r.op = "set_exposure"     -> r.arg.a = c.exposure
    [] r.op = "set_gain"         -> r.arg.a = c.gain
    [] r.op = "set_imaging_mode" -> r.arg.m = c.imaging_mode

\* C10: a setter called with the value that is cached sends nothing (no event
\* on the channel, no write to a camera node) and leaves all state unchanged;
\* and a setter that returns has cached its value, so that the same call made
\* again is such a call: the exchanges are done once.
C10_SetterIdempotence ==
  /\ [](( /\ task[FG].pc = "ret"
          /\ task[FG].op \in Setters
          /\ task[FG].result = "ok" ) => SameAsCached(task[FG], cached))
  /\ [][ ( /\ task[FG].pc = "idle"
           /\ task'[FG].op \in Setters
           /\ SameAsCached(task'[FG], cached) )
         => /\ task'[FG].pc = "ret"
            /\ task'[FG].log = <<>>
            /\ \A b \in BgTasks : task'[b] = task[b]
            /\ UNCHANGED <<cached, cam, shaking, shaking_task, rx, owed, parser, builder, imaging>>
     ]_vars

C10_Witness ==
  /\ task[FG].pc = "ret"
  /\ task[FG].op = "set_exposure"
  /\ task[FG].arg.a = 5
  /\ cached.exposure = 5
  /\ cam.ExposureTime = 5000
  /\ task[FG].result = "ok"
  /\ task[FG].log = <<>>

(* ====================== claims: response parser ======================= *)
\* the row segments of body d that lie between the marker and the last CRLF
SpanRows(d) == IF d.suf = 3 THEN d.n - 1 ELSE d.n
\* no defect of body d lies inside that span
CleanSpan(d) == d.defect = "none" \/ d.odd > SpanRows(d)
\* a group of the span lacks its third field, or carries a fourth
BrokenGroup(d) == d.defect \in {"short", "extra"} /\ d.odd <= SpanRows(d)
ParseDone == parse_in # NoBody /\ parse_out # NoResult

\* C8: the parser never returns a matrix with fewer than 8 rows; a body
\* whose span has fewer than 8 row segments makes the parse fail.
C8_RowCountEnforced ==
  (ParseDone /\ parse_out.ok) => Len(parse_out.data) >= NumRows

\* C9: for a body with the marker and exactly 8 row segments of complete
\* 3-field groups the parser returns the 8-row matrix of the third fields,
\* in order, whatever precedes the marker and follows the last CRLF; with a
\* group of the span that has not exactly 3 fields the parse fails.
C9_ParserResult ==
  ParseDone =>
    /\ (CleanSpan(parse_in) /\ SpanRows(parse_in) = NumRows) =>
          /\ parse_out.ok
          /\ parse_out.data =
               [r \in 1..NumRows |-> [c \in 1..parse_in.groups |-> CellValue(r, c)]]
    /\ (BrokenGroup(parse_in) /\ SpanRows(parse_in) = NumRows) => ~parse_out.ok

C9_Witness ==
  /\ ParseDone
  /\ CleanSpan(parse_in) /\ SpanRows(parse_in) = NumRows
  /\ parse_in.groups = 2 /\ parse_in.pre = 3 /\ parse_in.suf = 3
  /\ parse_out.ok /\ Len(parse_out.data) = NumRows

(* ===================== claims: command parameters ===================== *)
\* the length of the command body of each checksummed command
BodyLength(op) ==
  CASE op = "read_absorbance"   -> 49
    [] op = "read_fluorescence" -> 86
    [] op = "shake"             -> 35

\* the offset added to the byte sum of each checksummed command
Offset(op) ==
  CASE op = "read_absorbance"   -> 0
    [] op = "read_fluorescence" -> 7
    [] op = "shake"             -> 73

\* n as decimal digits, zero-padded to 4 and to 3 places
Digits4(n) ==
  <<48 + ((n \div 1000) % 10), 48 + ((n \div 100) % 10), 48 + ((n \div 10) % 10), 48 + (n % 10)>>
Digits3(n) == <<48 + ((n \div 100) % 10), 48 + ((n \div 10) % 10), 48 + (n % 10)>>

\* the template of each command with its arguments substituted
ExpectedBody(in) ==
  CASE in.op = "read_absorbance" ->
         AbsorbanceHead \o Digits4(in.a) \o AbsorbanceTail
    [] in.op = "read_fluorescence" ->
         FluorescenceHead \o Digits4(in.a) \o FluorescenceMid \o Digits4(in.b)
           \o FluorescenceTail
    [] in.op = "shake" ->
         ShakeHead \o Digits3(960) \o <<48 + in.a>> \o ShakeTail

Built == build_in # NoBuild
\* the parameter as sent: body, checksum field, terminator
SentBody == SubSeq(build_out, 1, BodyLength(build_in.op))
SentChecksum == SubSeq(build_out, BodyLength(build_in.op) + 1, Len(build_out) - 1)

\* C6: for every valid input the checksum field between the command body and
\* ETX has exactly 2 decimal digits, so every parameter of a command has the
\* same length.
C6_ChecksumTwoDigits ==
  Built => /\ Len(SentChecksum) = 2
           /\ Len(build_out) = BodyLength(build_in.op) + 3

\* C7: for every valid input the number in the checksum field is (byte sum of
\* the command body + offset) mod 100, the body being the template with the
\* zero-padded arguments substituted and the offset 0, 7 or 73.
C7_ChecksumValue ==
  Built =>
    /\ SentBody = ExpectedBody(build_in)
    /\ build_out[Len(build_out)] = ETX
    /\ SentChecksum # <<>>
    /\ \A k \in 1..Len(SentChecksum) : IsDigit(SentChecksum[k])
    /\ DigitsValue(SentChecksum) = (SumBytes(SentBody) + Offset(build_in.op)) % 100

C7_Witness ==
  /\ build_in = [op |-> "read_fluorescence", a |-> 485, b |-> 528]
  /\ SentChecksum = <<49, 57>>

(* ========================== claims: _read_until ======================= *)

\* C11: the Timeout error raised by the bounded read contains the bytes that
\* were accumulated before the deadline.
C11_TimeoutCarriesPartial ==
  \A t \in AllTasks :
    task[t].result = "TimeoutError" => task[t].args = task[t].incomplete

(* ========================= claims: _acquire_image ===================== *)
\* the attempts made so far all ended without an image
NoImageYet(outcomes) ==
  \A i \in 1..Len(outcomes) : outcomes[i] \in {"incomplete", "SpinnakerException"}

\* C12: every attempt issues one software trigger and one fetch and there are at
\* most max_image_read_attempts of them; the image returned is that of the first
\* attempt that yields one, with no attempt after it; when every attempt is
\* incomplete or raises an SDK error there are exactly max_image_read_attempts
\* attempts and then TimeoutError.
C12_AcquisitionRetryBound ==
  /\ acq.triggers <= MaxImageReadAttempts
  /\ acq.fetches = Len(acq.outcomes)
  /\ acq.triggers = acq.fetches + (IF acq.pc = "fetch" THEN 1 ELSE 0)
  /\ acq.result = "image" =>
       /\ acq.outcomes[Len(acq.outcomes)] = "image"
       /\ NoImageYet(SubSeq(acq.outcomes, 1, Len(acq.outcomes) - 1))
       /\ acq.triggers = Len(acq.outcomes)
  /\ acq.result = "TimeoutError" =>
       /\ NoImageYet(acq.outcomes)
       /\ acq.triggers = MaxImageReadAttempts
       /\ acq.fetches = MaxImageReadAttempts
  /\ (acq.pc \in {"finally", "ret"} /\ NoImageYet(acq.outcomes)
        /\ Len(acq.outcomes) = MaxImageReadAttempts)
       => acq.result \in {"TimeoutError", "CancelledError"}

\* C12 witness: three incomplete fetches, the image on the fourth attempt
C12_Witness ==
  /\ acq.pc = "ret"
  /\ acq.result = "image"
  /\ acq.outcomes = <<"incomplete", "incomplete", "incomplete", "image">>
  /\ acq.triggers = 4

\* C16: a call that has begun acquisition ends it exactly once, whatever the
\* exit: the image, the attempts exhausted, the trigger not writable, or the
\* cancellation during the sleep between two attempts.
C16_ScopedAcquisition ==
  /\ acq.pc \in {"loop", "fetch", "sleep", "finally"} =>
       (acq.begun = 1 /\ acq.ended = 0 /\ acq.acquiring)
  /\ acq.pc = "ret" => (acq.ended = acq.begun /\ acq.begun <= 1 /\ ~acq.acquiring)
  /\ acq.pc = "idle" => ~acq.acquiring
  /\ (acq.pc = "ret" /\ acq.result # "AssertionError") => acq.begun = 1

\* C16 witness: the call was cancelled during the sleep and has ended acquisition
C16_Witness ==
  /\ acq.pc = "ret"
  /\ acq.result = "CancelledError"
  /\ acq.begun = 1
  /\ acq.ended = 1

(* ========================= claims: read sequencing ==================== *)
\* the payloads written in a log, in order
Writes(log) ==
  LET w == SelectSeq(log, LAMBDA e : e[1] = "write")
  IN [i \in 1..Len(w) |-> w[i][2]]

\* the command codes "y", "D" and "O" among the writes of a log, in order
Codes(log) == SelectSeq(Writes(log), LAMBDA w : w \in {<<121>>, <<68>>, <<79>>})

IsPrefix(a, b) == Len(a) <= Len(b) /\ SubSeq(b, 1, Len(a)) = a

\* the position of the last write of a log, 0 when there is none
LastWrite(log) ==
  LET W == {i \in 1..Len(log) : log[i][1] = "write"}
  IN IF W = {} THEN 0 ELSE CHOOSE i \in W : \A j \in W : j <= i

RECURSIVE BytesRead(_)
\* the bytes read in a log, in order
BytesRead(log) ==
  IF log = <<>> THEN <<>>
  ELSE (IF Head(log)[1] = "read" THEN Head(log)[2] ELSE <<>>) \o BytesRead(Tail(log))

\* the bytes read since the last write
ReadsAfter(log) == BytesRead(SubSeq(log, LastWrite(log) + 1, Len(log)))

\* the position of the first ETX of a byte string, 0 when there is none
FirstEtx(bytes) ==
  LET E == {i \in 1..Len(bytes) : bytes[i] = ETX}
  IN IF E = {} THEN 0 ELSE CHOOSE i \in E : \A j \in E : i <= j

\* C13: a read operation writes "y", "D" and "O" in this order, reads the data
\* body only after the trigger "O" was answered by exactly ACK "0000" ETX, and
\* parses only the body it has read up to ETX; after any other answer to the
\* trigger it fails and neither reads nor parses a body.
C13_ReadSequencing ==
  LET r == task[FG]
      after == ReadsAfter(r.log)
      w == Writes(r.log)
      triggered == w # <<>> /\ w[Len(w)] = <<79>>
      k == IF triggered THEN FirstEtx(after) ELSE 0
      reply == SubSeq(after, 1, k)
      body == IF k = 0 THEN <<>> ELSE SubSeq(after, k + 1, Len(after))
  IN r.op \in ReadOps =>
       /\ IsPrefix(Codes(r.log), << <<121>>, <<68>>, <<79>> >>)
       /\ (body # <<>> \/ r.ph = 3 \/ r.pc = "rd_parse" \/ parse_out # NoResult) =>
            /\ Codes(r.log) = << <<121>>, <<68>>, <<79>> >>
            /\ triggered
            /\ reply = GoodAck
       /\ r.pc = "rd_parse" =>
            /\ r.resp = body
            /\ body # <<>>
            /\ FirstEtx(body) = Len(body)
            /\ parse_out = NoResult
       /\ parse_out # NoResult =>
            /\ r.pc = "ret"
            /\ body # <<>>
            /\ FirstEtx(body) = Len(body)
            /\ parse_out = ParseBody(body)
       /\ (r.pc = "ret" /\ k > 0 /\ reply # GoodAck) =>
            r.result \in {"AssertionError", "TimeoutError"}

\* C13 witness: a fluorescence read has returned the matrix parsed from the body
\* read after the exact acknowledgment of the trigger
C13_Witness ==
  /\ FgReturned("read_fluorescence")
  /\ task[FG].result = "ok"
  /\ parse_out.ok
  /\ Len(ReadsAfter(task[FG].log)) > Len(GoodAck)

(* ========================== claims: send_command ====================== *)
\* the index in a log of its n-th write
WriteAt(log, n) ==
  CHOOSE i \in 1..Len(log) :
    /\ log[i][1] = "write"
    /\ Cardinality({j \in 1..i : log[j][1] = "write"}) = n

\* C14: send_command writes the command code first; with a parameter it reads
\* up to an ACK and only then writes the parameter, and reads up to ETX after it
\* only when a response is requested, returning the bytes of that last read;
\* without a parameter it reads up to ETX when a response is requested, and
\* otherwise reads nothing and returns no response.
C14_SendProtocolOrder ==
  LET r == task[FG]
      e == SendInputs[r.arg.a]
      log == r.log
      w == Writes(log)
      after == ReadsAfter(log)
      first == Len(PurgeEvents) + 1
  IN r.op = "send_command" =>
       /\ log # <<>> => IsPrefix(PurgeEvents, log)
       /\ Len(log) >= first => log[first] = <<"write", e.cmd>>
       /\ IsPrefix(w, IF e.par = NoParam THEN <<e.cmd>> ELSE <<e.cmd, e.par>>)
       /\ Len(w) = 2 =>
            LET p == WriteAt(log, 2)
                acked == BytesRead(SubSeq(log, first + 1, p - 1))
            IN /\ acked # <<>>
               /\ acked[Len(acked)] = ACK
               /\ \A i \in 1..(Len(acked) - 1) : acked[i] # ACK
       /\ (e.par = NoParam /\ ~e.wait) => BytesRead(log) = <<>>
       /\ (Len(w) = 2 /\ ~e.wait) => after = <<>>
       /\ (r.pc = "ret" /\ r.result = "ok") =>
            /\ Len(w) = (IF e.par = NoParam THEN 1 ELSE 2)
            /\ e.wait => (after # <<>> /\ FirstEtx(after) = Len(after) /\ r.resp = after)
            /\ (e.par = NoParam /\ ~e.wait) => r.resp = <<>>

\* C14 witness: send_command("y", parameter) has returned the ETX read after the
\* parameter was written
C14_Witness ==
  /\ FgReturned("send_command")
  /\ task[FG].result = "ok"
  /\ SendInputs[task[FG].arg.a].par # NoParam
  /\ SendInputs[task[FG].arg.a].wait
  /\ task[FG].resp = <<ETX>>

(* ======================== claims: stop_shaking ======================== *)
\* C15: a stop_shaking() called while no session is running (flag false, no
\* task) puts nothing on the channel and does not fail.
C15_StopWhenIdleIsNoOp ==
  (/\ task[FG].op = "stop_shaking"
   /\ ~shaking
   /\ shaking_task = NoTask
   /\ task[FG].arg.a = NoTask)
    => (task[FG].log = <<>> /\ task[FG].result \in {"none", "ok"})

\* C17: a background task that stop_shaking() cancels ends at the polling wait
\* between two exchanges (or before it has started), never inside an exchange.
C17_CancelledBetweenExchanges ==
  [][\A b \in BgTasks :
       (task[b].st # "cancelled" /\ task'[b].st = "cancelled")
         => task[b].pc \in {"w_sleep", "start"}]_vars

\* stop_shaking() or stop() is between its call and the write of the abort
BeforeAbort == task[FG].op \in StopOps /\ task[FG].pc \in {"sc_purge", "sc_write"}

\* the log ends with the write of the abort and holds no byte read
AbortSent(log) ==
  /\ Count(log, AbortWrite) = 1
  /\ log[Len(log)] = AbortWrite
  /\ BytesRead(log) = <<>>

\* C18: stop_shaking(), also when stop() calls it, writes the abort 'x' and reads
\* no response to it; the flag is cleared, the task cancelled and the device
\* closed only after that write; no background task takes a step between the
\* call and the write of the abort.
C18_AbortFirst ==
  /\ [](task[FG].op \in StopOps =>
          /\ BytesRead(task[FG].log) = <<>>
          /\ BeforeAbort => running = FG
          /\ Count(task[FG].log, CloseEvent) > 0 =>
               task[FG].log = PurgeEvents \o <<AbortWrite, CloseEvent>>)
  /\ [][task[FG].op \in StopOps =>
          /\ BeforeAbort => \A b \in BgTasks : task'[b] = task[b]
          /\ (\/ shaking' # shaking
              \/ shaking_task' # shaking_task
              \/ \E b \in BgTasks : task'[b].cancel /\ ~task[b].cancel)
               => AbortSent(task[FG].log)]_vars

\* C18 witness: stop() has cancelled and awaited a task and closed the device
C18_Witness ==
  /\ FgReturned("stop")
  /\ task[FG].result = "ok"
  /\ task[FG].arg.a \in BgTasks
  /\ Count(task[FG].log, CloseEvent) = 1

(* ========================= claims: no retry =========================== *)
\* the read loop is about to find its deadline passed
DeadlinePassed(r) == r.pc = "ru_read" /\ r.el > Budget(r)

\* the trigger was answered, but not by the exact acknowledgment
TriggerRefused(r) ==
  /\ r.op \in ReadOps
  /\ r.pc = "sc_ret"
  /\ r.ex = Len(Script(r.op, r.arg))
  /\ r.resp # GoodAck

\* C20: a timeout or an unexpected answer to the trigger ends a read operation
\* (and open()) at once with the error: the step that meets it returns to the
\* caller, nothing is purged, written or read after it, and no command or
\* parameter is written twice in one operation.
C20_NoRetry ==
  /\ [](LET r == task[FG]
            w == Writes(r.log)
        IN r.op \in ReadOps \cup {"open"} =>
             /\ \A i, j \in 1..Len(w) : w[i] = w[j] => i = j
             /\ Count(r.log, <<"purge_tx", <<>>>>) <= Len(Script(r.op, r.arg))
             /\ r.result \notin {"none", "ok"} => r.pc = "ret")
  /\ [][LET r == task[FG]
            n == task'[FG]
        IN (r.op \in ReadOps \cup {"open"} /\ n # r) =>
             /\ DeadlinePassed(r) =>
                  /\ n.pc = "ret"
                  /\ n.result = "TimeoutError"
                  /\ Writes(n.log) = Writes(r.log)
                  /\ Count(n.log, <<"purge_tx", <<>>>>) = Count(r.log, <<"purge_tx", <<>>>>)
             /\ TriggerRefused(r) =>
                  (n.pc = "ret" /\ n.result = "AssertionError" /\ n.log = r.log)
             /\ r.pc = "ret" => n.log \in {r.log, <<>>}]_vars

\* C20 witness: a read operation has failed on an unexpected answer to its
\* trigger, with nothing read after that answer
C20_Witness ==
  /\ task[FG].op \in ReadOps
  /\ task[FG].pc = "ret"
  /\ task[FG].result = "AssertionError"
  /\ parse_out = NoResult
  /\ ReadsAfter(task[FG].log) = BadAck

(* ====================== claims: continuous shaking ==================== *)
\* a background task is at the start of the shake sequence: send_command("y", ...)
Issue == \E b \in BgTasks : task[b].pc = "sc_purge" /\ task[b].ex = 1

NoFailure == \A b \in BgTasks : task[b].st # "failed"

InRead == task[FG].pc \in {"ru_read", "ru_sleep"}

\* C21: every call of _read_until ends, by its return or by TimeoutError; it
\* raises TimeoutError only when the time elapsed exceeds the budget, and the
\* iteration that finds the budget exceeded raises it.
C21_ReadUntilTerminates ==
  /\ [](InRead => <>~InRead)
  /\ [][LET r == task[FG]
            n == task'[FG]
        IN (r.pc = "ru_read" /\ n # r) =>
             /\ (n.result = "TimeoutError") <=> (r.el > Budget(r))
             /\ n.result = "TimeoutError" => n.pc = "ret"]_vars

\* C21 witness: a read that never got a byte has ended with TimeoutError
C21_Witness ==
  /\ FgReturned("send_command")
  /\ task[FG].result = "TimeoutError"
  /\ BytesRead(task[FG].log) = <<>>

\* C22: the iteration of _read_until that reads the terminator returns the
\* accumulator: it does not raise TimeoutError.
C22_TerminatorReturns ==
  [][LET r == task[FG]
     IN (r.pc = "ru_read" /\ rx # <<>> /\ Head(rx) = Target(r) /\ task'[FG] # r)
          => task'[FG].result # "TimeoutError"]_vars

(* ========================= claims: purge before send ================== *)
PurgeRx == <<"purge_rx", <<>>>>
PurgeTx == <<"purge_tx", <<>>>>

\* the event is the write of a command code (one byte), not of a parameter
IsCommandWrite(e) == e[1] = "write" /\ Len(e[2]) = 1

\* C23: in the log of an operation every write of a command code comes straight
\* after six purges of the receive buffer and one purge of the transmit buffer,
\* and there is no other purge: none between the command code and the end of
\* its exchange.
C23_PurgeBeforeSend ==
  LET r == task[FG]
      log == r.log
      n == Len(log)
      pending == IF n > 0 /\ log[n] = PurgeTx THEN 1 ELSE 0
  IN r.op \in ReadOps \cup {"open"} =>
       /\ \A i \in 1..n : IsCommandWrite(log[i]) =>
            /\ i > PurgeRepeat + 1
            /\ log[i - 1] = PurgeTx
            /\ \A j \in (i - 1 - PurgeRepeat)..(i - 2) : log[j] = PurgeRx
            /\ i - 2 - PurgeRepeat >= 1 => log[i - 2 - PurgeRepeat] \notin {PurgeRx, PurgeTx}
       /\ Count(log, PurgeTx) = Cardinality({i \in 1..n : IsCommandWrite(log[i])}) + pending
       /\ Count(log, PurgeRx) = PurgeRepeat * Count(log, PurgeTx)
       /\ r.pc = "sc_write" => pending = 1

\* C23 witness: a fluorescence read has returned after its four exchanges
C23_Witness ==
  /\ FgReturned("read_fluorescence")
  /\ task[FG].result = "ok"
  /\ Count(task[FG].log, PurgeTx) = 4

(* ======================= claims: session and flag ===================== *)
\* task b writes a command code or a parameter of the shake sequence
ShakeWrite(b) ==
  /\ task[b].pc \in {"sc_write", "sc_wparam"}
  /\ task'[b].pc \in {"ru_read", "sc_ret"}

\* C24: while stop_shaking() has written the abort and has not returned yet, no
\* background task writes a byte of the shake sequence.
C24_NoShakingAfterStop ==
  [][(/\ task[FG].op = "stop_shaking"
      /\ Count(task[FG].log, AbortWrite) = 1)
       => \A b \in BgTasks : ~ShakeWrite(b)]_vars

\* the task has ended with the error of a failed exchange
Broken(b) ==
  task[b].st = "failed" /\ task[b].result \in {"TimeoutError", "AssertionError"}

\* C25: the flag is set only while a background task is alive: once the task
\* has ended with TimeoutError or with the AssertionError of the trigger the
\* flag is not set, and a stop_shaking() that awaits such a task returns
\* normally with the handle cleared.
C25_FlagTaskConsistency ==
  /\ \A b \in BgTasks : Broken(b) => ~shaking
  /\ (FgReturned("stop_shaking") /\ task[FG].arg.a \in BgTasks) =>
       (task[FG].result = "ok" /\ shaking_task = NoTask)

(* ========================= claims: cache coherence ==================== *)
\* send_command("i", "F5000000") and send_command("i", "W000000"): the parameters
FocusReset == <<"write", <<70, 53, 48, 48, 48, 48, 48, 48>>>>
SelectReset == <<"write", <<87, 48, 48, 48, 48, 48, 48>>>>

\* C26: set_imaging_mode caches the mode only when all its commands, the LED-on
\* exchange included, have succeeded; and when it has sent the focus reset or
\* the select reset, a cached focal height or a cached well does not stay as
\* it was.
C26_CacheCoherence ==
  [][LET n == task'[FG]
     IN (n.op = "set_imaging_mode" /\ n # task[FG]) =>
          /\ cached'.imaging_mode # cached.imaging_mode => n.result = "ok"
          /\ (Count(n.log, FocusReset) > 0 /\ cached.focal_height # None)
               => cached'.focal_height # cached.focal_height
          /\ (Count(n.log, SelectReset) > 0 /\ cached.row # None)
               => <<cached'.row, cached'.column>> # <<cached.row, cached.column>>]_vars

====
